---- MODULE Spec2Model ----
(***************************************************************************)
(* Model of the todo-cli terminal application (src/src/main.rs): the key   *)
(* dispatch of the main loop, the focus / tab / selection state, and the   *)
(* read-modify-write protocol on the backing file ./data.json.             *)
(***************************************************************************)
EXTENDS Integers, Sequences, FiniteSets, TLC

VARIABLES
    active_menu_item,   \* MenuItem: "Home" | "TODOs" | "Add"
    focused_input,      \* FocusedInput: "None" | "Name" | "Category" | "Text"
    inputs,             \* InputStates: [name, category, text], each a sequence of characters
    todo_list_state,    \* ListState.selected: <<>> is None, <<i>> is Some(i)
    db,                 \* the file at DB_PATH: [exists, utf8, valid, objs]
    status,             \* "running" | "quit" | "panicked"
    terminal,           \* [raw_mode, cursor_shown]
    overflow_checks,    \* build profile: TRUE panics on usize overflow, FALSE wraps
    last,               \* the event dispatched by the latest loop iteration
    run,                \* the current streak of equal Down / Up / Tab keys
    script,             \* scripted key sequence (scenario runs only)
    pos,                \* next position in script
    chan,               \* the mpsc channel (tx, rx): events sent and not yet received
    ppc,                \* input thread: "poll" | "send" | "tick" | "panicked" | "killed" | "off"
    key,                \* input thread: the key returned by event::read()
    due,                \* input thread: last_tick.elapsed() >= tick_rate
    failed,             \* the latest send that returned Err: "none" | "tick" | "input"
    hist                \* history: keys detected, events sent, events received

appvars == << active_menu_item, focused_input, inputs, todo_list_state, db, status,
              terminal, overflow_checks, last, run, script, pos >>

evvars == << chan, ppc, key, due, failed, hist >>

vars == << active_menu_item, focused_input, inputs, todo_list_state, db, status,
           terminal, overflow_checks, last, run, script, pos,
           chan, ppc, key, due, failed, hist >>

\* ------------------------------------------------------------------ bounds
MaxEvents == 3      \* events the input thread sends in a run with history
MaxQueue == 2       \* events waiting in the channel in a run without history
MaxItems == 2       \* longest todo list the store may grow to by submits
MaxChars == 1       \* characters held in the input buffers and the store together
UsizeBits == 2      \* width of usize, scaled down
RunCap == MaxItems + 3   \* streak counter saturates here

UsizeMod == 2 ^ UsizeBits

\* ------------------------------------------------------------------ values
None == <<>>
Some(i) == << i >>

MenuItem == {"Home", "TODOs", "Add"}
FocusedInput == {"Name", "Category", "Text", "None"}

Key(code) == [code |-> code, c |-> ""]
Char(c) == [code |-> "Char", c |-> c]
Tick == [code |-> "Tick", c |-> ""]
NoKey == [code |-> "NoKey", c |-> ""]
Start == [code |-> "Start", c |-> ""]

\* characters the keyboard produces in exhaustive runs
Alphabet == {"q", "h", "t", "a", "d", "x"}
\* characters typed into a focused field in exhaustive runs
TypedChars == {"q"}

\* rng.gen_range(0, GenRangeEnd): the upper end is exclusive
GenRangeEnd == 9999999
\* what one submit draws from the generator and the clock: (id, created_at)
Entropy == { << 0, "t0" >>, << GenRangeEnd - 1, "t1" >> }

Events == {Char(c) : c \in Alphabet}
          \cup {Key(k) : k \in {"Down", "Up", "Tab", "Backspace", "Esc", "Enter", "Left"}}

\* ------------------------------------------------------------------ strings
LowerSeq == << "a","b","c","d","e","f","g","h","i","j","k","l","m",
               "n","o","p","q","r","s","t","u","v","w","x","y","z" >>
UpperSeq == << "A","B","C","D","E","F","G","H","I","J","K","L","M",
               "N","O","P","Q","R","S","T","U","V","W","X","Y","Z" >>

\* char::to_uppercase: one character may map to several
CharToUppercase(c) ==
    IF \E i \in 1..Len(LowerSeq) : LowerSeq[i] = c
    THEN << UpperSeq[CHOOSE i \in 1..Len(LowerSeq) : LowerSeq[i] = c] >>
    ELSE IF c = "ß" THEN << "S", "S" >>
    ELSE << c >>

\* mutant: the category is stored as typed
to_uppercase_kept(s) == s

RECURSIVE to_uppercase(_)
to_uppercase(s) ==
    IF s = <<>> THEN <<>>
    ELSE CharToUppercase(Head(s)) \o to_uppercase(Tail(s))

push(s, c) == Append(s, c)
pop(s) == IF s = <<>> THEN <<>> ELSE SubSeq(s, 1, Len(s) - 1)

EmptyInputs == [name |-> <<>>, category |-> <<>>, text |-> <<>>]

\* ------------------------------------------------------------------ store
\* A Todo in memory is a record; in the file it is a JSON object, modelled as
\* the tuple of its members in declaration order.
TodoToJson(t) == << t.id, t.name, t.category, t.text, t.created_at >>
JsonToTodo(o) == [id |-> o[1], name |-> o[2], category |-> o[3], text |-> o[4],
                  created_at |-> o[5]]

to_vec(todos) == [i \in 1..Len(todos) |-> TodoToJson(todos[i])]
from_str(objs) == [i \in 1..Len(objs) |-> JsonToTodo(objs[i])]

\* The file: exists, holds UTF-8 text (fs::read_to_string succeeds), and the text is
\* a JSON array of Todo objects (serde_json::from_str succeeds).
Absent == [exists |-> FALSE, utf8 |-> FALSE, valid |-> FALSE, objs |-> <<>>]
NotText == [exists |-> TRUE, utf8 |-> FALSE, valid |-> FALSE, objs |-> <<>>]
Garbage == [exists |-> TRUE, utf8 |-> TRUE, valid |-> FALSE, objs |-> <<>>]
File(todos) == [exists |-> TRUE, utf8 |-> TRUE, valid |-> TRUE, objs |-> to_vec(todos)]

\* the files a run may find at start
InitialFiles == {Absent, NotText, Garbage, File(<<>>)}

\* fs::read_to_string(DB_PATH) returns Ok
ReadOk(f) == f.exists /\ f.utf8

\* mutant: a file that cannot be read or parsed counts as an empty list
ReadableLenient(f) == TRUE

\* fs::read_to_string(DB_PATH)? followed by serde_json::from_str(..)?
Readable(f) == ReadOk(f) /\ f.valid

\* read_db: the list it returns
read_db(f) == IF Readable(f) THEN from_str(f.objs) ELSE <<>>

\* read_db: the file it leaves behind
read_db_file(f) == IF ReadOk(f) THEN f ELSE File(<<>>)

\* mutant: an index past the end removes nothing
InBoundsAlways(v, index) == TRUE

\* Vec::remove(index) panics unless index < len
InBounds(v, index) == index < Len(v)

\* mutant: the first element is removed whatever the index
remove_first(v, index) == [j \in 1..(Len(v) - 1) |-> v[j + 1]]

\* Vec::remove(index), index < len
remove(v, index) == [j \in 1..(Len(v) - 1) |-> IF j <= index THEN v[j] ELSE v[j + 1]]

RECURSIVE CharsInTodos(_)
CharsInTodos(objs) ==
    IF objs = <<>> THEN 0
    ELSE Len(Head(objs)[2]) + Len(Head(objs)[3]) + Len(Head(objs)[4])
         + CharsInTodos(Tail(objs))

CharsHeld == Len(inputs.name) + Len(inputs.category) + Len(inputs.text)
             + CharsInTodos(db.objs)

\* ------------------------------------------------------------------ pure steps
\* mutant: the cycle passes through None after Text
NextFocusThroughNone(f) ==
    CASE f = "Name" -> "Category"
      [] f = "Category" -> "Text"
      [] f = "Text" -> "None"
      [] OTHER -> "Name"

\* the Tab arm's match on focused_input
NextFocus(f) ==
    CASE f = "Name" -> "Category"
      [] f = "Category" -> "Text"
      [] f = "Text" -> "Name"
      [] OTHER -> "Name"

\* mutant: the focus cycles on every tab
TabFocusAnywhere(tab, f) == NextFocus(f)

\* the Tab arm
TabFocus(tab, f) == IF tab = "Add" THEN NextFocus(f) ELSE f

\* mutant: Enter submits on every tab
SubmitsAnywhere(tab) == TRUE

\* the Enter arm's test of active_menu_item
Submits(tab) == tab = "Add"

\* usize subtraction, wrapping (release profile)
WrappingSub(a, b) == (a - b + UsizeMod) % UsizeMod

\* the Down arm's selection, amount_pets - 1 already computed
DownSelect(selected, last_index) ==
    IF selected >= last_index THEN 0 ELSE (selected + 1) % UsizeMod

\* the Up arm's selection
UpSelect(selected, last_index) ==
    IF selected > 0 THEN selected - 1 ELSE last_index

\* mutant: the selection is left where it was
SelectAfterRemoveKept(selected) == Some(selected)

\* remove_todo_at_index: the selection it leaves
SelectAfterRemove(selected) == IF selected >= 1 THEN Some(selected - 1) ELSE None

\* add_todo_from_input_to_db: the Todo it builds
NewTodo(in, id, now) ==
    [id |-> id, name |-> in.name, category |-> to_uppercase(in.category),
     text |-> in.text, created_at |-> now]

\* the frame drawn at the top of the next loop iteration: render_todos calls read_db
Draw(tab, f) == IF tab = "TODOs" THEN read_db_file(f) ELSE f

\* enable_raw_mode(); terminal.draw hides the cursor when the frame sets none
InApp == [raw_mode |-> TRUE, cursor_shown |-> FALSE]

\* disable_raw_mode()?; terminal.show_cursor()?;
Restored(term) == [term EXCEPT !.raw_mode = FALSE, !.cursor_shown = TRUE]

\* ------------------------------------------------------------------ streaks
\* run records how many times in a row the latest Down / Up / Tab key was pressed
\* and the selection and focus the streak started from; Untracked switches it off
NoRun == [code |-> "", n |-> 0, sel0 |-> None, focus0 |-> "None"]
Untracked == [code |-> "off", n |-> 0, sel0 |-> None, focus0 |-> "None"]

RunAfter(ev) ==
    IF run = Untracked THEN run
    ELSE IF ev.code \in {"Down", "Up", "Tab"}
    THEN IF run.code = ev.code
         THEN [run EXCEPT !.n = IF run.n < RunCap THEN run.n + 1 ELSE RunCap]
         ELSE [code |-> ev.code, n |-> 1, sel0 |-> todo_list_state,
               focus0 |-> focused_input]
    ELSE NoRun

\* ------------------------------------------------------------------ one loop iteration
\* the state a match arm leaves, then the next frame is drawn unless the loop ended
Commit(ev, tab, focus, in, sel, file, st) ==
    /\ active_menu_item' = tab
    /\ focused_input' = focus
    /\ inputs' = in
    /\ todo_list_state' = sel
    /\ db' = IF st = "running" THEN Draw(tab, file) ELSE file
    /\ status' = st
    /\ terminal' = IF st = "quit" THEN Restored(terminal) ELSE terminal
    /\ last' = ev
    /\ run' = RunAfter(ev)
    /\ UNCHANGED overflow_checks

Keep(ev) == Commit(ev, active_menu_item, focused_input, inputs, todo_list_state, db, "running")

\* mutant: 'q' leaves the loop whatever the focus
QuitsFocused(ev, focus) == ev = Char("q")

\* the pattern (KeyCode::Char('q'), FocusedInput::None)
Quits(ev, focus) == ev = Char("q") /\ focus = "None"

\* (KeyCode::Char('q'), FocusedInput::None)
ArmQuit(ev) ==
    /\ Quits(ev, focused_input)
    /\ Commit(ev, active_menu_item, focused_input, inputs, todo_list_state, db, "quit")

\* (KeyCode::Char('h' | 't' | 'a'), FocusedInput::None)
ArmSwitch(ev) ==
    /\ ev \in {Char("h"), Char("t"), Char("a")} /\ focused_input = "None"
    /\ Commit(ev, CASE ev.c = "h" -> "Home" [] ev.c = "t" -> "TODOs" [] OTHER -> "Add",
              focused_input, inputs, todo_list_state, db, "running")

\* (KeyCode::Char('d'), FocusedInput::None): remove_todo_at_index(..).expect(..)
ArmDelete(ev) ==
    /\ ev = Char("d") /\ focused_input = "None"
    /\ IF todo_list_state = None
       THEN Keep(ev)
       ELSE LET selected == todo_list_state[1]
                parsed == from_str(db.objs)
            IN IF Readable(db) /\ InBounds(parsed, selected)
               THEN Commit(ev, active_menu_item, focused_input, inputs,
                           SelectAfterRemove(selected),
                           File(remove(parsed, selected)), "running")
               ELSE Commit(ev, active_menu_item, focused_input, inputs,
                           todo_list_state, db, "panicked")

\* amount_pets - 1 on usize: the values the build can produce (empty set: panic)
LastIndex(amount) ==
    IF amount >= 1 THEN {amount - 1}
    ELSE IF overflow_checks THEN {} ELSE {WrappingSub(amount, 1)}

\* mutant: Down with nothing selected selects the first item
ArmDownSelectsFirst(ev) ==
    /\ ev = Key("Down") /\ focused_input = "None"
    /\ Commit(ev, active_menu_item, focused_input, inputs,
              IF todo_list_state = None THEN Some(0) ELSE todo_list_state,
              read_db_file(db), "running")

\* (KeyCode::Down, FocusedInput::None)
ArmDown(ev) ==
    /\ ev = Key("Down") /\ focused_input = "None"
    /\ IF todo_list_state = None
       THEN Keep(ev)
       ELSE LET selected == todo_list_state[1]
                amount_pets == Len(read_db(db))
                file == read_db_file(db)
            IN IF LastIndex(amount_pets) = {}
               THEN Commit(ev, active_menu_item, focused_input, inputs,
                           todo_list_state, file, "panicked")
               ELSE \E li \in LastIndex(amount_pets) :
                      Commit(ev, active_menu_item, focused_input, inputs,
                             Some(DownSelect(selected, li)), file, "running")

\* (KeyCode::Up, FocusedInput::None)
ArmUp(ev) ==
    /\ ev = Key("Up") /\ focused_input = "None"
    /\ IF todo_list_state = None
       THEN Keep(ev)
       ELSE LET selected == todo_list_state[1]
                amount_pets == Len(read_db(db))
                file == read_db_file(db)
            IN IF selected > 0
               THEN Commit(ev, active_menu_item, focused_input, inputs,
                           Some(UpSelect(selected, 0)), file, "running")
               ELSE IF LastIndex(amount_pets) = {}
               THEN Commit(ev, active_menu_item, focused_input, inputs,
                           todo_list_state, file, "panicked")
               ELSE \E li \in LastIndex(amount_pets) :
                      Commit(ev, active_menu_item, focused_input, inputs,
                             Some(UpSelect(selected, li)), file, "running")

\* (KeyCode::Tab, _)
ArmTab(ev) ==
    /\ ev = Key("Tab")
    /\ Commit(ev, active_menu_item, TabFocus(active_menu_item, focused_input),
              inputs, todo_list_state, db, "running")

\* (KeyCode::Char(_), FocusedInput::None) and (KeyCode::Backspace, FocusedInput::None)
ArmIgnored(ev) ==
    /\ focused_input = "None"
    /\ \/ ev.code = "Char" /\ ev.c \notin {"q", "h", "t", "a", "d"}
       \/ ev.code = "Backspace"
    /\ Keep(ev)

\* mutant: every character goes to the name
TypeIntoName(in, focus, c) == [in EXCEPT !.name = push(@, c)]

\* the three (KeyCode::Char(c), focus) arms: the buffer the character goes to
TypeInto(in, focus, c) ==
    CASE focus = "Name" -> [in EXCEPT !.name = push(@, c)]
      [] focus = "Category" -> [in EXCEPT !.category = push(@, c)]
      [] OTHER -> [in EXCEPT !.text = push(@, c)]

\* (KeyCode::Char(c), FocusedInput::Name | Category | Text)
ArmChar(ev) ==
    /\ ev.code = "Char" /\ focused_input # "None"
    /\ Commit(ev, active_menu_item, focused_input,
              TypeInto(inputs, focused_input, ev.c), todo_list_state, db, "running")

\* (KeyCode::Backspace, FocusedInput::Name | Category | Text)
ArmBackspace(ev) ==
    /\ ev = Key("Backspace") /\ focused_input # "None"
    /\ Commit(ev, active_menu_item, focused_input,
              CASE focused_input = "Name" -> [inputs EXCEPT !.name = pop(@)]
                [] focused_input = "Category" -> [inputs EXCEPT !.category = pop(@)]
                [] OTHER -> [inputs EXCEPT !.text = pop(@)],
              todo_list_state, db, "running")

\* (KeyCode::Esc, FocusedInput::None) and (KeyCode::Esc, _)
ArmEsc(ev) ==
    /\ ev = Key("Esc")
    /\ Commit(ev, active_menu_item, "None", inputs, todo_list_state, db, "running")

\* mutant: the new Todo is put in front of the list
AddedFileFront(f, in, id, now) == File(<< NewTodo(in, id, now) >> \o from_str(f.objs))

\* add_todo_from_input_to_db: the file after a successful call
AddedFile(f, in, id, now) == File(Append(from_str(f.objs), NewTodo(in, id, now)))

\* mutant: Enter submits only from a focused field
ArmEnterNeedsFocus(ev) ==
    /\ ev = Key("Enter")
    /\ IF ~Submits(active_menu_item) \/ focused_input = "None"
       THEN Keep(ev)
       ELSE IF ~Readable(db)
       THEN Commit(ev, active_menu_item, focused_input, inputs, todo_list_state,
                   db, "panicked")
       ELSE /\ Len(db.objs) < MaxItems
            /\ \E e \in Entropy :
                 Commit(ev, active_menu_item, "None", EmptyInputs, todo_list_state,
                        AddedFile(db, inputs, e[1], e[2]), "running")

\* (KeyCode::Enter, _)
ArmEnter(ev) ==
    /\ ev = Key("Enter")
    /\ IF ~Submits(active_menu_item)
       THEN Keep(ev)
       ELSE IF ~Readable(db)
       THEN Commit(ev, active_menu_item, focused_input, inputs, todo_list_state,
                   db, "panicked")
       ELSE /\ Len(db.objs) < MaxItems
            /\ \E e \in Entropy :
                 Commit(ev, active_menu_item, "None", EmptyInputs, todo_list_state,
                        AddedFile(db, inputs, e[1], e[2]), "running")

\* _ => {}
ArmOther(ev) ==
    /\ \/ ev.code \notin {"Char", "Down", "Up", "Tab", "Backspace", "Esc", "Enter", "Tick"}
       \/ ev.code \in {"Down", "Up"} /\ focused_input # "None"
    /\ Keep(ev)

\* Event::Tick => {}
ArmTick(ev) ==
    /\ ev = Tick
    /\ UNCHANGED << active_menu_item, focused_input, inputs, todo_list_state, status,
                    terminal, overflow_checks, last, run >>
    /\ db' = Draw(active_menu_item, db)

Dispatch(ev) ==
    \/ ArmQuit(ev) \/ ArmSwitch(ev) \/ ArmDelete(ev) \/ ArmDown(ev) \/ ArmUp(ev)
    \/ ArmTab(ev) \/ ArmIgnored(ev) \/ ArmChar(ev) \/ ArmBackspace(ev) \/ ArmEsc(ev)
    \/ ArmEnter(ev) \/ ArmOther(ev) \/ ArmTick(ev)

\* ------------------------------------------------------------------ exhaustive runs
InitApp ==
    /\ active_menu_item = "Home"
    /\ focused_input = "None"
    /\ inputs = EmptyInputs
    /\ todo_list_state = Some(0)
    /\ status = "running"
    /\ terminal = InApp
    /\ last = Start

\* no history is kept
NoHist == [on |-> FALSE, detected |-> <<>>, sent |-> <<>>, received |-> <<>>]

\* runs that hand the events to the dispatch directly, without the input thread
NoThread ==
    /\ chan = <<>> /\ ppc = "off" /\ key = NoKey /\ due = FALSE
    /\ failed = "none" /\ hist = NoHist

Init ==
    /\ InitApp
    /\ NoThread
    /\ run = Untracked
    /\ db \in InitialFiles
    /\ overflow_checks \in BOOLEAN
    /\ script = <<>>
    /\ pos = 1

Live == status = "running" /\ UNCHANGED << script, pos >> /\ UNCHANGED evvars

KeyQuit == Live /\ \E ev \in Events : ArmQuit(ev)
KeySwitch == Live /\ \E ev \in Events : ArmSwitch(ev)
KeyDelete == Live /\ \E ev \in Events : ArmDelete(ev)
KeyDown == Live /\ \E ev \in Events : ArmDown(ev)
KeyUp == Live /\ \E ev \in Events : ArmUp(ev)
KeyTab == Live /\ \E ev \in Events : ArmTab(ev)
KeyIgnored == Live /\ \E ev \in Events : ArmIgnored(ev)
KeyChar == Live /\ \E ev \in Events :
               ev.c \in TypedChars /\ CharsHeld < MaxChars /\ ArmChar(ev)
KeyBackspace == Live /\ \E ev \in Events : ArmBackspace(ev)
KeyEsc == Live /\ \E ev \in Events : ArmEsc(ev)
KeyEnter == Live /\ \E ev \in Events : ArmEnter(ev)
KeyOther == Live /\ \E ev \in Events : ArmOther(ev)
TickEvent == Live /\ ArmTick(Tick)

KeyCharAny == Live /\ \E ev \in Events : CharsHeld < MaxChars /\ ArmChar(ev)

Next ==
    \/ KeyQuit \/ KeySwitch \/ KeyDelete \/ KeyDown \/ KeyUp \/ KeyTab
    \/ KeyIgnored \/ KeyChar \/ KeyBackspace \/ KeyEsc \/ KeyEnter \/ KeyOther
    \/ TickEvent

Spec == Init /\ [][Next]_vars

\* ------------------------------------------------------------------ streak-recording runs
InitNav ==
    /\ InitApp
    /\ NoThread
    /\ run = NoRun
    /\ db \in InitialFiles
    /\ overflow_checks \in BOOLEAN
    /\ script = <<>>
    /\ pos = 1

\* the keys that move the selection, the focus and the tab, and the two store operations
NavNext ==
    \/ KeyQuit \/ KeySwitch \/ KeyDelete \/ KeyDown \/ KeyUp \/ KeyTab
    \/ KeyEsc \/ KeyEnter \/ TickEvent

SpecNav == InitNav /\ [][NavNext]_vars

\* ------------------------------------------------------------------ typing runs
\* every character of the alphabet may be typed; the store is not mutated
TypingNext ==
    \/ KeyQuit \/ KeySwitch \/ KeyTab \/ KeyIgnored \/ KeyCharAny \/ KeyBackspace
    \/ KeyEsc \/ KeyOther \/ TickEvent

SpecTyping == Init /\ [][TypingNext]_vars

\* ------------------------------------------------------------------ scripted runs
Typing(s) == [i \in 1..Len(s) |-> Char(s[i])]

\* 'a', Tab, the name, Tab, the category, Tab, the text, Enter
AddScript(name, category, text) ==
    << Char("a"), Key("Tab") >> \o Typing(name) \o << Key("Tab") >> \o Typing(category)
    \o << Key("Tab") >> \o Typing(text) \o << Key("Enter") >>

Milk == << "M", "i", "l", "k" >>
Shopping == << "s", "h", "o", "p", "p", "i", "n", "g" >>
BuyMilk == << "b", "u", "y", " ", "m", "i", "l", "k" >>

ScriptNames == { Milk, << "q" >> }
ScriptCategories == { Shopping, << "s", "t", "r", "a", "ß", "e" >> }
ScriptTexts == { BuyMilk, << "d", "o" >> }

Scripts == { AddScript(n, c, t) : n \in ScriptNames, c \in ScriptCategories,
                                  t \in ScriptTexts }

InitScenario ==
    /\ InitApp
    /\ NoThread
    /\ run = Untracked
    /\ db = File(<<>>)
    /\ overflow_checks \in BOOLEAN
    /\ script \in Scripts
    /\ pos = 1

ScriptStep ==
    /\ status = "running"
    /\ pos <= Len(script)
    /\ Dispatch(script[pos])
    /\ pos' = pos + 1
    /\ UNCHANGED script
    /\ UNCHANGED evvars

SpecScenario == InitScenario /\ [][ScriptStep]_vars

\* ------------------------------------------------------------------ input thread and channel
\* the keys event::read() may return in these runs
PolledKeys == {Char("q"), Char("t")}

\* rx is dropped when main returns or unwinds: from then on tx.send returns Err
RxAlive == status = "running"

\* room left for one more send
Room == IF hist.on THEN Len(hist.sent) < MaxEvents ELSE Len(chan) < MaxQueue

Detected(k) == IF hist.on THEN [hist EXCEPT !.detected = Append(@, k)] ELSE hist
Sent(ev) == IF hist.on THEN [hist EXCEPT !.sent = Append(@, ev)] ELSE hist
Received(ev) == IF hist.on THEN [hist EXCEPT !.received = Append(@, ev)] ELSE hist

\* mutant: the receiver takes the newest event
recv_newest(q) == << q[Len(q)], SubSeq(q, 1, Len(q) - 1) >>

\* rx.recv() on a non-empty channel: the event returned and the channel left
recv(q) == << Head(q), Tail(q) >>

\* mutant: a failed send of a key is ignored
InputSendErrIgnored == "tick"

\* tx.send(Event::Input(key)).expect("can send events") on Err
InputSendErr == "panicked"

\* mutant: the tick is tested only when no key was read
AfterInputSentSkipsTick == "poll"

\* after the send of a key the iteration goes on to the tick test
AfterInputSent == "tick"

ThreadRuns == ppc \in {"poll", "send", "tick"}

\* the clock: the tick interval since last_tick runs out
Clock ==
    /\ ThreadRuns /\ ~due
    /\ due' = TRUE
    /\ UNCHANGED << chan, ppc, key, failed, hist >>
    /\ UNCHANGED appvars

\* event::poll(timeout) returns true and event::read() returns a key
PollKey ==
    /\ ppc = "poll" /\ Room
    /\ \E k \in PolledKeys :
          /\ key' = k
          /\ hist' = Detected(k)
    /\ ppc' = "send"
    /\ UNCHANGED << chan, due, failed >>
    /\ UNCHANGED appvars

\* event::poll(timeout) returns true and event::read() returns no key (mouse, resize)
PollOther ==
    /\ ppc = "poll"
    /\ ppc' = "tick"
    /\ UNCHANGED << chan, key, due, failed, hist >>
    /\ UNCHANGED appvars

\* event::poll(timeout) returns false: the rest of the tick interval has passed
PollTimeout ==
    /\ ppc = "poll"
    /\ ppc' = "tick"
    /\ due' = TRUE
    /\ UNCHANGED << chan, key, failed, hist >>
    /\ UNCHANGED appvars

\* tx.send(Event::Input(key)).expect("can send events")
SendInput ==
    /\ ppc = "send"
    /\ IF RxAlive
       THEN /\ chan' = Append(chan, key)
            /\ hist' = Sent(key)
            /\ ppc' = AfterInputSent
            /\ UNCHANGED failed
       ELSE /\ ppc' = InputSendErr
            /\ failed' = "input"
            /\ UNCHANGED << chan, hist >>
    /\ key' = NoKey
    /\ UNCHANGED due
    /\ UNCHANGED appvars

\* if last_tick.elapsed() >= tick_rate { if let Ok(_) = tx.send(Event::Tick) { last_tick = now } }
TickCheck ==
    /\ ppc = "tick"
    /\ due => (RxAlive => Room)
    /\ IF ~due
       THEN UNCHANGED << chan, due, failed, hist >>
       ELSE IF RxAlive
       THEN /\ chan' = Append(chan, Tick)
            /\ hist' = Sent(Tick)
            /\ due' = FALSE
            /\ UNCHANGED failed
       ELSE /\ failed' = "tick"
            /\ UNCHANGED << chan, due, hist >>
    /\ ppc' = "poll"
    /\ UNCHANGED key
    /\ UNCHANGED appvars

\* rx.recv() returns an event and the match dispatches it
Receive ==
    /\ status = "running" /\ chan # <<>>
    /\ Dispatch(recv(chan)[1])
    /\ chan' = recv(chan)[2]
    /\ hist' = Received(recv(chan)[1])
    /\ UNCHANGED << ppc, key, due, failed, script, pos >>

\* main has returned or panicked: the process ends and the input thread with it
ProcessExit ==
    /\ status # "running" /\ ppc # "killed"
    /\ ppc' = "killed"
    /\ UNCHANGED << chan, key, due, failed, hist >>
    /\ UNCHANGED appvars

InitThread ==
    /\ InitApp
    /\ run = Untracked
    /\ db = File(<<>>)
    /\ overflow_checks \in BOOLEAN
    /\ script = <<>> /\ pos = 1
    /\ chan = <<>> /\ ppc = "poll" /\ key = NoKey /\ due = FALSE /\ failed = "none"

EventsNext ==
    \/ Clock \/ PollKey \/ PollOther \/ PollTimeout \/ SendInput \/ TickCheck
    \/ Receive \/ ProcessExit

\* runs that record what was detected, sent and received
InitEvents == InitThread /\ hist = [NoHist EXCEPT !.on = TRUE]

SpecEvents == InitEvents /\ [][EventsNext]_vars

\* runs without history, with the threads and the clock scheduled fairly
InitEventsFair == InitThread /\ hist = NoHist

SpecEventsFair ==
    /\ InitEventsFair /\ [][EventsNext]_vars
    /\ WF_vars(PollKey \/ PollOther \/ PollTimeout \/ SendInput \/ TickCheck)
    /\ WF_vars(Clock)
    /\ WF_vars(Receive)

\* ------------------------------------------------------------------ properties
Todos == read_db(db)
TodosAfter == read_db(db')
Selected == todo_list_state[1]

\* the upper-case form of each character typed in exhaustive runs
UpperOfTyped(c) == IF c = "q" THEN "Q" ELSE c
UppercasedAs(typed, stored) ==
    /\ Len(stored) = Len(typed)
    /\ \A i \in 1..Len(typed) : stored[i] = UpperOfTyped(typed[i])

\* C1: an Enter dispatched on the Add tab over a parsable store L leaves the store
\* holding L, unchanged and in order, followed by one new item whose name and text
\* are the buffers and whose category is the category buffer in upper case.
C1_SubmitAppends ==
    [][ (last' = Key("Enter") /\ active_menu_item = "Add" /\ Readable(db))
        => /\ status' = "running"
           /\ Readable(db')
           /\ Len(TodosAfter) = Len(Todos) + 1
           /\ SubSeq(TodosAfter, 1, Len(Todos)) = Todos
           /\ TodosAfter[Len(TodosAfter)].name = inputs.name
           /\ TodosAfter[Len(TodosAfter)].text = inputs.text
           /\ UppercasedAs(inputs.category, TodosAfter[Len(TodosAfter)].category) ]_vars

\* C1 witness: a submit with a typed category has been appended to a non-empty list
C1_Witness ==
    /\ last = Key("Enter") /\ active_menu_item = "Add" /\ status = "running"
    /\ Len(Todos) = 2
    /\ Todos[2].category = << "Q" >>

ScenarioScript == AddScript(Milk, Shopping, BuyMilk)

\* C2: from the initial state over an empty store, the keys 'a', Tab, "Milk", Tab,
\* "shopping", Tab, "buy milk", Enter leave exactly one stored item, named "Milk",
\* of category "SHOPPING" and text "buy milk", all buffers cleared and no focus.
C2_Scenario ==
    (script = ScenarioScript /\ pos = Len(script) + 1)
    => /\ status = "running"
       /\ Readable(db)
       /\ Len(Todos) = 1
       /\ Todos[1].name = << "M", "i", "l", "k" >>
       /\ Todos[1].category = << "S", "H", "O", "P", "P", "I", "N", "G" >>
       /\ Todos[1].text = << "b", "u", "y", " ", "m", "i", "l", "k" >>
       /\ inputs = EmptyInputs
       /\ focused_input = "None"

\* C2 witness: the scenario's script has been played to its last key
C2_Witness ==
    /\ script = ScenarioScript /\ pos = Len(script) + 1
    /\ last = Key("Enter")

\* C3: the selection is None whenever the stored list is empty, and Some(i) only
\* for an index i of the stored list.
C3_SelectionTracksStore ==
    /\ Todos = <<>> => todo_list_state = None
    /\ todo_list_state # None => Selected < Len(Todos)

\* C4: with no focus and an empty stored list, a Down or Up key leaves the selection
\* and the stored list as they were and does not abort the program.
C4_NavigationOnEmptyList ==
    [][ (last' \in {Key("Down"), Key("Up")} /\ focused_input = "None" /\ Todos = <<>>)
        => /\ todo_list_state' = todo_list_state
           /\ TodosAfter = Todos
           /\ status' = "running" ]_vars

\* C5: over a non-empty stored list of length len, len presses of Down in a row, or
\* len presses of Up in a row, bring the selection back to where the streak started.
C5_Wrap ==
    (status = "running" /\ run.code \in {"Down", "Up"} /\ Len(Todos) >= 1
     /\ run.n = Len(Todos))
    => todo_list_state = run.sel0

DeleteApplies ==
    /\ focused_input = "None" /\ todo_list_state # None
    /\ Readable(db) /\ Selected < Len(Todos)

\* C6: a 'd' dispatched with no focus, the selection Some(i) and i an index of the
\* stored list L leaves the store holding L less its element at position i.
C6_DeleteRemovesSelected ==
    [][ (last' = Char("d") /\ DeleteApplies)
        => /\ status' = "running"
           /\ Readable(db')
           /\ Len(TodosAfter) = Len(Todos) - 1
           /\ \A j \in 1..Len(TodosAfter) :
                TodosAfter[j] = IF j <= Selected THEN Todos[j] ELSE Todos[j + 1] ]_vars

\* C6 witness: the second of two items has been deleted
C6_Witness ==
    /\ last = Char("d") /\ status = "running"
    /\ todo_list_state = Some(0) /\ Len(Todos) = 1

\* C7: a successful 'd' with the selection Some(i) leaves it Some(i-1) when i > 0 and
\* None when i = 0, and a Down or Up key pressed while it is None leaves it None.
C7_SelectionAfterDelete ==
    [][ /\ (last' = Char("d") /\ DeleteApplies)
           => todo_list_state' = IF Selected > 0 THEN Some(Selected - 1) ELSE None
        /\ (last' \in {Key("Down"), Key("Up")} /\ todo_list_state = None)
           => (todo_list_state' = None /\ status' = "running") ]_vars

\* C7 witness: the only remaining item was deleted and Down or Up pressed after it
C7_Witness ==
    /\ last \in {Key("Down"), Key("Up")} /\ status = "running"
    /\ todo_list_state = None /\ Readable(db) /\ Todos = <<>>

\* the order in which Tab moves the focus
FocusCycle(f) ==
    IF f = "None" THEN "Name"
    ELSE IF f = "Name" THEN "Category"
    ELSE IF f = "Category" THEN "Text"
    ELSE "Name"

\* C8 as stated: a Tab key advances the focus along the cycle on every tab.
C8_TabAdvancesOnEveryTab ==
    [][ last' = Key("Tab") => focused_input' = FocusCycle(focused_input) ]_vars

\* C8 as amended: a Tab key advances the focus along None -> Name -> Category ->
\* Text -> Name when the Add tab is active, and leaves it unchanged on Home and TODOs.
C8_TabAdvancesOnAddOnly ==
    [][ last' = Key("Tab")
        => /\ active_menu_item' = active_menu_item
           /\ focused_input' = IF active_menu_item = "Add"
                               THEN FocusCycle(focused_input)
                               ELSE focused_input ]_vars

\* C8 witness: Tab has moved the focus to the last field on the Add tab
C8_Witness ==
    /\ last = Key("Tab") /\ active_menu_item = "Add" /\ focused_input = "Text"

FourTabsFromNone == run.code = "Tab" /\ run.n = 4 /\ run.focus0 = "None"

\* C9 as stated: four Tab presses in a row from no focus end with no focus.
C9_FourTabsReturnToNone ==
    FourTabsFromNone => focused_input = "None"

\* C9 as amended: four Tab presses in a row from no focus end with the focus on
\* Name when the Add tab is active, and with no focus on Home and TODOs.
C9_FourTabsReachName ==
    FourTabsFromNone
    => focused_input = IF active_menu_item = "Add" THEN "Name" ELSE "None"

\* C9 witness: four Tab presses in a row from no focus on the Add tab
C9_Witness ==
    FourTabsFromNone /\ active_menu_item = "Add"

\* C10: an Enter dispatched while Home or TODOs is active leaves the store, the
\* three buffers, the focus, the active tab and the selection as they were.
C10_EnterOutsideAdd ==
    [][ (last' = Key("Enter") /\ active_menu_item \in {"Home", "TODOs"})
        => /\ db' = db
           /\ inputs' = inputs
           /\ focused_input' = focused_input
           /\ active_menu_item' = active_menu_item
           /\ todo_list_state' = todo_list_state
           /\ status' = "running" ]_vars

\* C10 witness: Enter pressed on TODOs with text in a buffer and an item stored
C10_Witness ==
    /\ last = Key("Enter") /\ active_menu_item = "TODOs" /\ status = "running"
    /\ inputs.name # <<>> /\ Todos # <<>>

\* ------------------------------------------------------------------ store errors

\* fs::read_to_string or serde_json::from_str fails on the file as it is
StoreMissingOrUnparsable == ~db.exists \/ ~db.utf8 \/ ~db.valid

\* the step dispatches Enter on the Add tab (append)
AppendStep == last' = Key("Enter") /\ active_menu_item = "Add"

\* the step dispatches 'd' in unfocused mode with a selected cursor (remove_at)
RemoveStep == last' = Char("d") /\ focused_input = "None" /\ todo_list_state # None

\* C11: an append (Enter on Add) or a remove ('d' with a selected cursor) while
\* the store file is missing or unparsable aborts the process, and the file is
\* exactly as it was before.
C11_StrictMutation ==
    [][((AppendStep \/ RemoveStep) /\ StoreMissingOrUnparsable)
        => (status' = "panicked" /\ db' = db)]_vars

\* an append was attempted on an unparsable file
C11_Witness ==
    /\ status = "panicked" /\ last = Key("Enter") /\ active_menu_item = "Add"
    /\ db = Garbage

\* the step runs read_db and no mutation: a switch to the TODOs tab (the frame
\* drawn after it), or Down/Up with a selected cursor
LoadStep ==
    \/ last' = Char("t") /\ focused_input = "None"
    \/ last' \in {Key("Down"), Key("Up")} /\ focused_input = "None"
                                           /\ todo_list_state # None

\* C12: a load on an absent file creates the file holding the empty list; a load
\* on a file that exists but does not parse returns the empty list and leaves the
\* file content unchanged.
C12_LenientLoad ==
    [][LoadStep =>
        /\ ~db.exists => (db' = File(<<>>) /\ read_db(db) = <<>>)
        /\ (db.exists /\ ~(db.utf8 /\ db.valid)) => (db' = db /\ read_db(db) = <<>>)]_vars

\* C13: 'd' with the cursor at an index that is not an index of the stored list
\* fails (the process aborts) and leaves the store file, and so its list,
\* unchanged.
C13_OutOfRangeDelete ==
    [][(RemoveStep /\ ~StoreMissingOrUnparsable /\ Selected >= Len(Todos))
        => (status' = "panicked" /\ db' = db /\ TodosAfter = Todos)]_vars

\* 'd' was pressed with the cursor on index 0 of a stored empty list
C13_Witness ==
    /\ status = "panicked" /\ last = Char("d") /\ focused_input = "None"
    /\ db = File(<<>>) /\ todo_list_state = Some(0)

\* ------------------------------------------------------------------ leaving the loop
\* C17: the loop has ended normally exactly when the latest event is 'q' received
\* with no field focused, and then raw mode is disabled and the cursor is shown;
\* no other event (a key in focused mode, Tick, a navigation key) ends it.
C17_CleanExit ==
    /\ status = "quit" <=> (last = Char("q") /\ focused_input = "None")
    /\ status = "quit" => (~terminal.raw_mode /\ terminal.cursor_shown)
    /\ status # "quit" => terminal = InApp

\* a 'q' typed into the name did not end the loop; a later 'q' without focus did
C17_Witness ==
    /\ status = "quit" /\ inputs.name = << "q" >>
    /\ ~terminal.raw_mode /\ terminal.cursor_shown

\* ------------------------------------------------------------------ keys and tabs
\* the step dispatches 'd', Down or Up in unfocused mode
CursorKeyStep ==
    /\ last' \in {Char("d"), Key("Down"), Key("Up")}
    /\ focused_input = "None"

\* C18 (over a non-empty stored list): while the active tab is Home or Add, the
\* keys 'd', Down and Up leave the selection cursor and the store unchanged.
C18_CursorKeysOnlyOnTodos ==
    [][(CursorKeyStep /\ active_menu_item \in {"Home", "Add"} /\ Todos # <<>>)
        => (todo_list_state' = todo_list_state /\ TodosAfter = Todos)]_vars

\* the buffer the focus names
Focused(in, focus) ==
    CASE focus = "Name" -> in.name
      [] focus = "Category" -> in.category
      [] OTHER -> in.text

\* all that a key typed in focused mode must leave alone, with the two buffers
\* out of focus
RestOf(in, focus, tab, sel, file, st) ==
    << IF focus = "Name" THEN <<>> ELSE in.name,
       IF focus = "Category" THEN <<>> ELSE in.category,
       IF focus = "Text" THEN <<>> ELSE in.text,
       focus, tab, sel, file, st >>

TypingRestUnchanged ==
    RestOf(inputs', focused_input', active_menu_item', todo_list_state', db', status')
    = RestOf(inputs, focused_input, active_menu_item, todo_list_state, db, status)

\* C19: in focused mode a character key, 'q', 'h', 't', 'a' and 'd' included,
\* appends the character to the focused buffer; Backspace removes the last
\* character of that buffer, and nothing when it is empty; either key leaves
\* the other buffers, the focus, the tab, the cursor and the store unchanged.
C19_TypingInFocusedMode ==
    [][/\ (last'.code = "Char" /\ focused_input # "None")
          => /\ Focused(inputs', focused_input) = Append(Focused(inputs, focused_input), last'.c)
             /\ TypingRestUnchanged
       /\ (last' = Key("Backspace") /\ focused_input # "None")
          => /\ Focused(inputs', focused_input) =
                   IF Focused(inputs, focused_input) = <<>> THEN <<>>
                   ELSE SubSeq(Focused(inputs, focused_input), 1,
                               Len(Focused(inputs, focused_input)) - 1)
             /\ TypingRestUnchanged]_vars

\* 'd' was typed into the category on the Add tab and the program runs on
C19_Witness ==
    /\ last = Char("d") /\ focused_input = "Category" /\ active_menu_item = "Add"
    /\ inputs = [EmptyInputs EXCEPT !.category = << "d" >>]
    /\ status = "running"

\* C20: Esc in focused mode sets the focus to None and leaves the three buffers
\* unchanged; the buffers are changed only by a character or Backspace typed
\* into a focused field, or by a submit (Enter on the Add tab), which leaves all
\* three empty: never by a tab switch or any other event.
C20_BuffersSurvive ==
    [][/\ (last' = Key("Esc") /\ focused_input # "None")
          => (focused_input' = "None" /\ inputs' = inputs)
       /\ inputs' # inputs
          => \/ last'.code \in {"Char", "Backspace"} /\ focused_input # "None"
             \/ last' = Key("Enter") /\ active_menu_item = "Add" /\ inputs' = EmptyInputs]_vars

\* a typed name outlived Esc and a switch to another tab
C20_Witness ==
    /\ last \in {Char("h"), Char("t")} /\ active_menu_item # "Add"
    /\ focused_input = "None" /\ inputs.name # <<>>

\* ------------------------------------------------------------------ event delivery
IsPrefix(p, q) == Len(p) <= Len(q) /\ SubSeq(q, 1, Len(p)) = p

\* the key events among the events sent
InputsOf(evs) == SelectSeq(evs, LAMBDA ev : ev # Tick)

\* the key read and not yet sent
Pending == IF ppc = "send" THEN << key >> ELSE <<>>

\* C14: while the main loop runs, the events received followed by those waiting
\* in the channel are exactly the events sent, Input and Tick, in the order
\* sent, and every key detected has been sent or is about to be: none is
\* dropped or reordered. What was received is always a prefix of what was sent.
C14_DeliveryInOrder ==
    /\ IsPrefix(hist.received, hist.sent)
    /\ status = "running" =>
          /\ hist.sent = hist.received \o chan
          /\ hist.detected = InputsOf(hist.sent) \o Pending

\* a key and a Tick were received in the order sent while a 'q' still waits
C14_Witness ==
    /\ hist.received = << Char("t"), Tick >>
    /\ chan = << Char("q") >> /\ status = "running"

Blocked == status = "running" /\ chan = <<>>

C21_FocusOnlyOnAdd ==
    /\ [](focused_input # "None" => active_menu_item = "Add")
    /\ [][/\ (focused_input = "None" /\ focused_input' # "None")
             => (last' = Key("Tab") /\ active_menu_item = "Add")
          /\ active_menu_item' # active_menu_item
             => (last' \in {Char("h"), Char("t"), Char("a")} /\ focused_input = "None")]_vars

\* a 't' typed into the focused name did not switch the tab
C21_Witness ==
    /\ focused_input = "Name" /\ active_menu_item = "Add"
    /\ last = Char("t") /\ inputs.name = << "t" >>

\* ------------------------------------------------------------------ the lost selection
\* C22: once the selection is None it is None after every further event; 'd'
\* with the selection None changes neither the store nor anything else of the
\* application; so no stored item is removed from then on, although the list
\* may be non-empty (after the delete of index 0 of a longer list).
C22_NoneStaysNone ==
    [][todo_list_state = None
        => /\ todo_list_state' = None
           /\ Len(TodosAfter) >= Len(Todos)
           /\ SubSeq(TodosAfter, 1, Len(Todos)) = Todos
           /\ last' = Char("d")
              => /\ db' = db /\ status' = "running"
                 /\ << active_menu_item', focused_input', inputs' >>
                    = << active_menu_item, focused_input, inputs >>]_vars

\* a delete of index 0 left the selection None; an item is stored, the list is
\* on screen, and the Down just dispatched has selected nothing
C22_Witness ==
    /\ todo_list_state = None /\ Len(Todos) = 1
    /\ active_menu_item = "TODOs" /\ last = Key("Down") /\ status = "running"

\* ------------------------------------------------------------------ the unguarded submit
\* the item a submit has put at the end of the store
Submitted == TodosAfter[Len(TodosAfter)]

\* C23: Enter on the Add tab over a parsable store appends one item whatever the
\* focus and the buffers are; with no field focused and the three buffers empty
\* the item appended has an empty name, category and text.
C23_SubmitRegardlessOfFocus ==
    [][(last' = Key("Enter") /\ active_menu_item = "Add" /\ Readable(db))
        => /\ \A focus \in FocusedInput :
                focused_input = focus =>
                   (status' = "running" /\ Len(TodosAfter) = Len(Todos) + 1)
           /\ (focused_input = "None" /\ inputs = EmptyInputs)
              => << Submitted.name, Submitted.category, Submitted.text >>
                 = << <<>>, <<>>, <<>> >>]_vars

\* two items with nothing typed were submitted, one after the other
C23_Witness ==
    /\ last = Key("Enter") /\ active_menu_item = "Add" /\ status = "running"
    /\ Len(Todos) = 2
    /\ \A i \in 1..2 : << Todos[i].name, Todos[i].category, Todos[i].text >>
                       = << <<>>, <<>>, <<>> >>

====
